---- MODULE Spec2Model ----
(***************************************************************************)
(* Osd::DrawContext (opensubdiv/osd/drawContext.h): the PatchArray value   *)
(* type, the DrawContext aggregate, and the conversion pass that fills the *)
(* PatchArray list from a Far patch table.                                 *)
(*                                                                         *)
(* The header holds the bodies of PatchArray and of the DrawContext        *)
(* constructor and accessors.  ConvertPatchArrays and the packers are only *)
(* declared there; their bodies, the patch descriptor and the patch table  *)
(* are modelled from the design document and say so where defined.         *)
(***************************************************************************)
EXTENDS Integers, Sequences, FiniteSets, TLC

VARIABLES
    phase,            \* "constructed" | "converted" | "error"
    isAdaptive,       \* DrawContext::_isAdaptive
    maxValence,       \* DrawContext::_maxValence
    patchArrays,      \* DrawContext::_patchArrays
    table,            \* the source patch table handed to the conversion pass
    vertBufLen,       \* length of the packed vertex-index buffer
    quadOffsetBufLen, \* length of the packed quad-offset buffer
    edits,            \* number of edits made through the writable accessor
    ctorMaxValence,   \* history: the argument of DrawContext(int maxValence)
    emitted,          \* history: each PatchArray as its constructor built it
    origin,           \* history: the native group each PatchArray came from
    lastSet           \* history: last count and descriptor given to each array

vars == << phase, isAdaptive, maxValence, patchArrays, table, vertBufLen,
           quadOffsetBufLen, edits, ctorMaxValence, emitted, origin, lastSet >>

(***************************************************************************)
(* Bounds of the model.                                                    *)
(***************************************************************************)
\* most native groups in a source table
MaxGroups == 2
\* most SetNumPatches / SetDescriptor calls on one context
MaxEdits == 1

(***************************************************************************)
(* C++ integer conversions.  int and Far::Index are 32-bit signed; the     *)
(* getters return unsigned int.  An unsigned value is kept as its two      *)
(* 16-bit halves, so that all 2^32 values are representable.               *)
(***************************************************************************)
Radix == 2 ^ 16

\* conversion of an int to unsigned int: the value modulo 2^32
ToUnsigned(x) == [hi |-> (x \div Radix) % Radix, lo |-> x % Radix]

\* an unsigned value that is below 2^31, hence also an int
FitsInt(u) == u.hi < Radix \div 2

\* the number an unsigned value below 2^31 stands for
Value(u) == u.hi * Radix + u.lo

\* u <= v on unsigned values
ULeq(u, v) == u.hi < v.hi \/ (u.hi = v.hi /\ u.lo <= v.lo)

(***************************************************************************)
(* Far::PatchDescriptor: type, transition pattern, rotation.  subPatch     *)
(* numbers the sub-patches a transition pattern is drawn as.               *)
(***************************************************************************)
PatchDescriptor(type, pattern, rotation, subPatch) ==
    [type |-> type, pattern |-> pattern, rotation |-> rotation, subPatch |-> subPatch]

\* control vertices per patch: a function of the patch type
GetNumControlVertices(desc) ==
    CASE desc.type = "REGULAR" -> 16
      [] desc.type = "BOUNDARY" -> 12
      [] desc.type = "CORNER" -> 9
      [] desc.type = "GREGORY" -> 4
      [] desc.type = "GREGORY_BOUNDARY" -> 4

\* Gregory-type patches read the quad-offset buffer
IsGregory(desc) == desc.type \in {"GREGORY", "GREGORY_BOUNDARY"}

\* the decomposition rule: how many sub-patches a transition pattern is drawn as
KnownPatterns ==
    {"NON_TRANSITION", "PATTERN0", "PATTERN1", "PATTERN2", "PATTERN3", "PATTERN4"}

HasDecompositionRule(pattern) == pattern \in KnownPatterns

NumSubPatches(pattern) ==
    CASE pattern = "NON_TRANSITION" -> 1
      [] pattern = "PATTERN0" -> 3
      [] pattern = "PATTERN1" -> 4
      [] pattern = "PATTERN2" -> 4
      [] pattern = "PATTERN3" -> 4
      [] pattern = "PATTERN4" -> 2

\* the descriptors a native group's descriptor is drawn with, in order
SubDescriptors(desc) ==
    [j \in 1..NumSubPatches(desc.pattern) |->
        PatchDescriptor(desc.type, desc.pattern, desc.rotation, j - 1)]

(***************************************************************************)
(* DrawContext::PatchArray                                                 *)
(***************************************************************************)
\* a slip in the initialiser list: vertIndex and patchIndex exchanged
PatchArray_SwappedIndices(desc, npatches, vertIndex, patchIndex, qoIndex) ==
    [desc |-> desc, npatches |-> npatches, vertIndex |-> patchIndex,
     patchIndex |-> vertIndex, quadOffsetIndex |-> qoIndex]

\* a slip in the initialiser list: the count taken from patchIndex
PatchArray_CountFromIndex(desc, npatches, vertIndex, patchIndex, qoIndex) ==
    [desc |-> desc, npatches |-> patchIndex, vertIndex |-> vertIndex,
     patchIndex |-> patchIndex, quadOffsetIndex |-> qoIndex]

PatchArray(desc, npatches, vertIndex, patchIndex, qoIndex) ==
    [desc |-> desc, npatches |-> npatches, vertIndex |-> vertIndex,
     patchIndex |-> patchIndex, quadOffsetIndex |-> qoIndex]

GetDescriptor(pa) == pa.desc

SetDescriptor(pa, desc) == [pa EXCEPT !.desc = desc]

GetVertIndex(pa) == ToUnsigned(pa.vertIndex)

GetPatchIndex(pa) == ToUnsigned(pa.patchIndex)

GetNumPatches(pa) == ToUnsigned(pa.npatches)

\* the index count computed for regular patches whatever the descriptor
GetNumIndices_RegularOnly(pa) == ToUnsigned(pa.npatches * 16)

\* the product is an int product (signed overflow is undefined; the counts
\* of this model keep it within int), returned as unsigned int
GetNumIndices(pa) == ToUnsigned(pa.npatches * GetNumControlVertices(pa.desc))

GetQuadOffsetIndex(pa) == ToUnsigned(pa.quadOffsetIndex)

\* a setter that moves the array's first vertex along with the count
SetNumPatches_MovesVertIndex(pa, npatches) ==
    [pa EXCEPT !.npatches = npatches, !.vertIndex = npatches]

SetNumPatches(pa, npatches) == [pa EXCEPT !.npatches = npatches]

(***************************************************************************)
(* Far::PatchTables as the conversion pass reads it: whether the table is  *)
(* feature adaptive, and its native groups in table order, each a          *)
(* descriptor and a patch count.                                           *)
(***************************************************************************)
PatchTables(adaptive, groups) == [adaptive |-> adaptive, groups |-> groups]

IsFeatureAdaptive(patchTables) == patchTables.adaptive

\* a well-formed table: counts are not negative and every group that is
\* converted has a decomposition rule
IsValidTable(patchTables) ==
    \A g \in 1..Len(patchTables.groups) :
        /\ patchTables.groups[g].npatches >= 0
        /\ patchTables.groups[g].npatches > 0 =>
               HasDecompositionRule(patchTables.groups[g].desc.pattern)

\* quad-offset entries one Gregory patch reads
QuadOffsetsPerPatch(desc) == IF IsGregory(desc) THEN 4 ELSE 0

(***************************************************************************)
(* DrawContext::ConvertPatchArrays: one pass over the native groups with   *)
(* running vertex, patch and quad-offset offsets.  Each emitted entry      *)
(* keeps, beside the PatchArray, the constructor's arguments and the       *)
(* native group it was made for.                                           *)
(***************************************************************************)
\* the arrays emitted for one native group at the running offsets
EmitGroup(grp, g, vOff, pOff, qOff) ==
    LET subs == SubDescriptors(grp.desc)
    IN  [j \in 1..Len(subs) |->
            [pa    |-> PatchArray(subs[j], grp.npatches, vOff, pOff, qOff),
             args  |-> [desc |-> subs[j], npatches |-> grp.npatches,
                        vertIndex |-> vOff, patchIndex |-> pOff,
                        quadOffsetIndex |-> qOff],
             group |-> g]]

RECURSIVE ConvertFrom(_, _, _, _, _, _)
ConvertFrom(groups, g, vOff, pOff, qOff, out) ==
    IF g > Len(groups) THEN out
    ELSE LET grp == groups[g]
         IN  IF grp.npatches = 0
             THEN ConvertFrom(groups, g + 1, vOff, pOff, qOff, out)
             ELSE ConvertFrom(groups, g + 1,
                      vOff + grp.npatches * GetNumControlVertices(grp.desc),
                      pOff + grp.npatches,
                      qOff + grp.npatches * QuadOffsetsPerPatch(grp.desc),
                      out \o EmitGroup(grp, g, vOff, pOff, qOff))

ConvertPatchArrays(patchTables) == ConvertFrom(patchTables.groups, 1, 0, 0, 0, << >>)

(***************************************************************************)
(* The packers: the length of the buffer each one fills.                   *)
(***************************************************************************)
RECURSIVE packPatchVerts(_)
packPatchVerts(groups) ==
    IF groups = << >> THEN 0
    ELSE Head(groups).npatches * GetNumControlVertices(Head(groups).desc)
             + packPatchVerts(Tail(groups))

RECURSIVE packQuadOffsets(_)
packQuadOffsets(groups) ==
    IF groups = << >> THEN 0
    ELSE Head(groups).npatches * QuadOffsetsPerPatch(Head(groups).desc)
             + packQuadOffsets(Tail(groups))

(***************************************************************************)
(* DrawContext                                                             *)
(***************************************************************************)
\* a constructor that leaves the valence at zero
DrawContext_DropsValence(mv) == [isAdaptive |-> FALSE, maxValence |-> 0]

DrawContext(mv) == [isAdaptive |-> FALSE, maxValence |-> mv]

\* the flag read inverted
IsAdaptive_Inverted == ~isAdaptive

IsAdaptive == isAdaptive

GetPatchArrays == patchArrays

GetMaxValence == maxValence

(***************************************************************************)
(* Inputs                                                                  *)
(***************************************************************************)
MaxValenceInputs == {4, 8}

Regular == PatchDescriptor("REGULAR", "NON_TRANSITION", 0, 0)

RegularTransition == PatchDescriptor("REGULAR", "PATTERN0", 0, 0)

Gregory == PatchDescriptor("GREGORY", "NON_TRANSITION", 0, 0)

\* a transition pattern the decomposition rule does not know
UnknownTransition == PatchDescriptor("REGULAR", "PATTERN5", 0, 0)

TableDescriptors == {Regular, RegularTransition, Gregory, UnknownTransition}

TableCounts == {0, 4}

GroupInputs == [desc : TableDescriptors, npatches : TableCounts]

TableInputs ==
    { PatchTables(a, gs) :
        a \in BOOLEAN,
        gs \in UNION { [1..n -> GroupInputs] : n \in 0..MaxGroups } }

\* int values a backend may hand to SetNumPatches
EditCounts == {-1, 0, 5}

EditDescriptors == {Regular, Gregory}

NoTable == PatchTables(FALSE, << >>)

(***************************************************************************)
(* Operations                                                              *)
(***************************************************************************)
Init ==
    \E mv \in MaxValenceInputs :
        /\ phase = "constructed"
        /\ isAdaptive = DrawContext(mv).isAdaptive
        /\ maxValence = DrawContext(mv).maxValence
        /\ patchArrays = << >>
        /\ table = NoTable
        /\ vertBufLen = 0
        /\ quadOffsetBufLen = 0
        /\ edits = 0
        /\ ctorMaxValence = mv
        /\ emitted = << >>
        /\ origin = << >>
        /\ lastSet = << >>

\* the conversion pass of a concrete draw context on a well-formed table:
\* ConvertPatchArrays into the context's own list, the packers, the flag
Create(t) ==
    /\ phase = "constructed"
    /\ IsValidTable(t)
    /\ LET out == ConvertPatchArrays(t)
       IN  /\ patchArrays' = [k \in 1..Len(out) |-> out[k].pa]
           /\ emitted' = [k \in 1..Len(out) |-> out[k].args]
           /\ origin' = [k \in 1..Len(out) |-> out[k].group]
           /\ lastSet' = [k \in 1..Len(out) |->
                             [npatches |-> out[k].args.npatches,
                              desc |-> out[k].args.desc]]
    /\ isAdaptive' = IsFeatureAdaptive(t)
    /\ vertBufLen' = packPatchVerts(t.groups)
    /\ quadOffsetBufLen' = packQuadOffsets(t.groups)
    /\ table' = t
    /\ phase' = "converted"
    /\ UNCHANGED << maxValence, edits, ctorMaxValence >>

\* the conversion pass on a malformed table fails fast and stores nothing
CreateFails(t) ==
    /\ phase = "constructed"
    /\ ~IsValidTable(t)
    /\ table' = t
    /\ phase' = "error"
    /\ UNCHANGED << isAdaptive, maxValence, patchArrays, vertBufLen,
                    quadOffsetBufLen, edits, ctorMaxValence, emitted, origin,
                    lastSet >>

\* GetPatchArrays()[i].SetNumPatches(n) through the writable accessor
EditNumPatches(i, n) ==
    /\ phase = "converted"
    /\ edits < MaxEdits
    /\ i \in 1..Len(patchArrays)
    /\ patchArrays' = [patchArrays EXCEPT ![i] = SetNumPatches(@, n)]
    /\ lastSet' = [lastSet EXCEPT ![i].npatches = n]
    /\ edits' = edits + 1
    /\ UNCHANGED << phase, isAdaptive, maxValence, table, vertBufLen,
                    quadOffsetBufLen, ctorMaxValence, emitted, origin >>

\* GetPatchArrays()[i].SetDescriptor(d) through the writable accessor
EditDescriptor(i, d) ==
    /\ phase = "converted"
    /\ edits < MaxEdits
    /\ i \in 1..Len(patchArrays)
    /\ patchArrays' = [patchArrays EXCEPT ![i] = SetDescriptor(@, d)]
    /\ lastSet' = [lastSet EXCEPT ![i].desc = d]
    /\ edits' = edits + 1
    /\ UNCHANGED << phase, isAdaptive, maxValence, table, vertBufLen,
                    quadOffsetBufLen, ctorMaxValence, emitted, origin >>

Next ==
    \/ \E t \in TableInputs : Create(t)
    \/ \E t \in TableInputs : CreateFails(t)
    \/ \E i \in 1..Len(patchArrays), n \in EditCounts : EditNumPatches(i, n)
    \/ \E i \in 1..Len(patchArrays), d \in EditDescriptors : EditDescriptor(i, d)

Spec == Init /\ [][Next]_vars

(***************************************************************************)
(* Helpers of the properties                                               *)
(***************************************************************************)
Converted == phase = "converted"

\* the list is as the conversion pass left it
FreshlyConverted == phase = "converted" /\ edits = 0

Groups == table.groups

\* the number an unsigned getter result stands for, -1 when it is above int
Num(u) == IF FitsInt(u) THEN Value(u) ELSE -1

VertBegin(i) == Num(GetVertIndex(patchArrays[i]))

VertEnd(i) == Num(GetVertIndex(patchArrays[i])) + Num(GetNumIndices(patchArrays[i]))

RECURSIVE SumNumPatches(_)
SumNumPatches(groups) ==
    IF groups = << >> THEN 0 ELSE Head(groups).npatches + SumNumPatches(Tail(groups))

RECURSIVE SumNumIndices(_)
SumNumIndices(pas) ==
    IF pas = << >> THEN 0 ELSE Num(GetNumIndices(Head(pas))) + SumNumIndices(Tail(pas))

\* the groups before group g
Before(g) == SubSeq(Groups, 1, g - 1)

ArraysOf(g) == { i \in 1..Len(patchArrays) : origin[i] = g }

RECURSIVE WithoutEmptyGroups(_)
WithoutEmptyGroups(groups) ==
    IF groups = << >> THEN << >>
    ELSE IF Head(groups).npatches = 0 THEN WithoutEmptyGroups(Tail(groups))
    ELSE << Head(groups) >> \o WithoutEmptyGroups(Tail(groups))

ArraysOnly(out) == [k \in 1..Len(out) |-> out[k].pa]

\* array i as the conversion pass constructed it
AsEmitted(i) ==
    PatchArray(emitted[i].desc, emitted[i].npatches, emitted[i].vertIndex,
               emitted[i].patchIndex, emitted[i].quadOffsetIndex)

(***************************************************************************)
(* C1 (as stated): in the list ConvertPatchArrays produces, the first      *)
(* array starts at vertex offset 0, the vertex-index ranges of any two     *)
(* arrays do not overlap and lie in increasing order, and an array that    *)
(* starts a fresh group begins where its predecessor ends.                 *)
(***************************************************************************)
C1_RangesNeverOverlap ==
    FreshlyConverted =>
        /\ Len(patchArrays) > 0 => VertBegin(1) = 0
        /\ \A i, j \in 1..Len(patchArrays) : i < j => VertEnd(i) <= VertBegin(j)
        /\ \A i \in 1..Len(patchArrays) - 1 :
               origin[i + 1] # origin[i] => VertEnd(i) = VertBegin(i + 1)

(***************************************************************************)
(* C1 (amended): in the list ConvertPatchArrays produces, the first array  *)
(* starts at vertex offset 0, offsets never decrease along the list, the   *)
(* ranges of arrays of different native groups do not overlap, the arrays  *)
(* of one split group share one range, and an array that starts a fresh    *)
(* group begins where its predecessor ends.                                *)
(***************************************************************************)
C1_RangesOfDistinctGroupsDisjoint ==
    FreshlyConverted =>
        /\ Len(patchArrays) > 0 => VertBegin(1) = 0
        /\ \A i, j \in 1..Len(patchArrays) :
               i < j =>
                   /\ VertBegin(i) <= VertBegin(j)
                   /\ origin[i] # origin[j] => VertEnd(i) <= VertBegin(j)
                   /\ origin[i] = origin[j] =>
                          VertBegin(i) = VertBegin(j) /\ VertEnd(i) = VertEnd(j)
        /\ \A i \in 1..Len(patchArrays) - 1 :
               origin[i + 1] # origin[i] => VertEnd(i) = VertBegin(i + 1)

\* a converted list holding a split group followed by a fresh group
C1_Witness ==
    /\ FreshlyConverted
    /\ \E i \in 1..Len(patchArrays) - 1 :
           origin[i + 1] = origin[i] /\ VertBegin(i + 1) = VertBegin(i)
    /\ \E i \in 1..Len(patchArrays) - 1 :
           origin[i + 1] # origin[i] /\ VertBegin(i + 1) > 0

(***************************************************************************)
(* C2: a native group whose transition pattern decomposes into k           *)
(* sub-patterns is replaced, in place, by exactly k PatchArrays that all   *)
(* start at the offsets the groups before it add up to, so the next group  *)
(* sees the offsets advanced by the group's contribution once.             *)
(***************************************************************************)
C2_SplitGroupSharesOffsets ==
    FreshlyConverted =>
        /\ \A i \in 1..Len(patchArrays) - 1 : origin[i] <= origin[i + 1]
        /\ \A g \in 1..Len(Groups) :
               Groups[g].npatches > 0 =>
                   /\ Cardinality(ArraysOf(g)) = NumSubPatches(Groups[g].desc.pattern)
                   /\ \A i \in ArraysOf(g) :
                          /\ VertBegin(i) = packPatchVerts(Before(g))
                          /\ Num(GetPatchIndex(patchArrays[i])) = SumNumPatches(Before(g))
                          /\ Num(GetQuadOffsetIndex(patchArrays[i])) =
                                 packQuadOffsets(Before(g))

\* a pattern of three sub-patches followed by another group: three arrays at
\* offset 0, the next group at 4 * 16
C2_Witness ==
    /\ FreshlyConverted
    /\ Len(Groups) = 2
    /\ Groups[1] = [desc |-> RegularTransition, npatches |-> 4]
    /\ Groups[2].npatches > 0
    /\ Cardinality(ArraysOf(1)) = 3
    /\ \A i \in ArraysOf(1) : VertBegin(i) = 0
    /\ \A i \in ArraysOf(2) : VertBegin(i) = 64

(***************************************************************************)
(* C3: for a table without split groups and without zero-patch groups the  *)
(* list holds one PatchArray per native group, in table order, with the    *)
(* group's descriptor and patch count at the running offsets, and the      *)
(* packed vertex-index buffer is as long as the arrays' GetNumIndices()    *)
(* add up to.                                                              *)
(***************************************************************************)
C3_OneArrayPerGroup ==
    ( /\ FreshlyConverted
      /\ \A g \in 1..Len(Groups) :
             Groups[g].npatches > 0 /\ NumSubPatches(Groups[g].desc.pattern) = 1 )
    =>
        /\ Len(patchArrays) = Len(Groups)
        /\ \A g \in 1..Len(Groups) :
               /\ GetDescriptor(patchArrays[g]) = Groups[g].desc
               /\ Num(GetNumPatches(patchArrays[g])) = Groups[g].npatches
               /\ VertBegin(g) = SumNumIndices(SubSeq(patchArrays, 1, g - 1))
               /\ Num(GetPatchIndex(patchArrays[g])) = SumNumPatches(Before(g))
               /\ Num(GetQuadOffsetIndex(patchArrays[g])) = packQuadOffsets(Before(g))
        /\ vertBufLen = SumNumIndices(patchArrays)

\* one regular group of 4 patches: one array, 4 patches, offset 0, 64 indices
C3_Witness ==
    /\ FreshlyConverted
    /\ Groups = << [desc |-> Regular, npatches |-> 4] >>
    /\ Len(patchArrays) = 1
    /\ Num(GetNumPatches(patchArrays[1])) = 4
    /\ VertBegin(1) = 0
    /\ vertBufLen = 64

(***************************************************************************)
(* C4: a native group without patches emits no PatchArray and advances no  *)
(* offset: the list and the buffers are those of the table with its        *)
(* zero-patch groups removed, no emitted array is empty, and a table with  *)
(* no patches at all gives an empty list and empty buffers, not an error.  *)
(***************************************************************************)
C4_EmptyGroupsSkipped ==
    /\ FreshlyConverted =>
           /\ patchArrays =
                  ArraysOnly(ConvertPatchArrays(
                      PatchTables(table.adaptive, WithoutEmptyGroups(Groups))))
           /\ vertBufLen = packPatchVerts(WithoutEmptyGroups(Groups))
           /\ quadOffsetBufLen = packQuadOffsets(WithoutEmptyGroups(Groups))
           /\ \A i \in 1..Len(patchArrays) : Num(GetNumPatches(patchArrays[i])) > 0
    /\ (phase # "constructed" /\ WithoutEmptyGroups(Groups) = << >>) =>
           /\ phase = "converted"
           /\ patchArrays = << >>
           /\ vertBufLen = 0
           /\ quadOffsetBufLen = 0

\* a converted table that holds a group without patches before one with patches
C4_Witness ==
    /\ FreshlyConverted
    /\ Len(Groups) = 2
    /\ Groups[1].npatches = 0
    /\ Groups[2].npatches > 0
    /\ Len(patchArrays) > 0
    /\ VertBegin(1) = 0

(***************************************************************************)
(* C5: after any SetNumPatches and SetDescriptor calls, GetNumIndices() is *)
(* the count last given times the control-vertex count of the descriptor   *)
(* last given.                                                             *)
(***************************************************************************)
C5_NumIndicesIsCountTimesVertices ==
    Converted =>
        \A i \in 1..Len(patchArrays) :
            /\ FitsInt(GetNumIndices(patchArrays[i]))
            /\ Value(GetNumIndices(patchArrays[i])) =
                   lastSet[i].npatches * GetNumControlVertices(lastSet[i].desc)

(***************************************************************************)
(* C6 (as stated): after a conversion pass, edits through the writable     *)
(* accessor included, every PatchArray has vertexIndexOffset + patchCount  *)
(* * controlVertexCount <= the length of the vertex-index buffer.          *)
(***************************************************************************)
C6_RangeWithinBufferAfterEdits ==
    Converted =>
        \A i \in 1..Len(patchArrays) :
            patchArrays[i].vertIndex
                + patchArrays[i].npatches * GetNumControlVertices(patchArrays[i].desc)
              <= vertBufLen

(***************************************************************************)
(* C6 (amended): after a conversion pass, every PatchArray whose           *)
(* GetNumIndices() is no larger than when the pass emitted it (so every    *)
(* array not edited since) has GetVertIndex() + GetNumIndices() <= the     *)
(* length of the vertex-index buffer.                                      *)
(***************************************************************************)
C6_RangeWithinBufferUnlessGrown ==
    Converted =>
        \A i \in 1..Len(patchArrays) :
            ULeq(GetNumIndices(patchArrays[i]), GetNumIndices(AsEmitted(i))) =>
                /\ FitsInt(GetVertIndex(patchArrays[i]))
                /\ FitsInt(GetNumIndices(patchArrays[i]))
                /\ VertEnd(i) <= vertBufLen

\* an array edited to a smaller descriptor, still inside the buffer
C6_Witness ==
    /\ Converted
    /\ \E i \in 1..Len(patchArrays) :
           /\ patchArrays[i].desc # emitted[i].desc
           /\ ULeq(GetNumIndices(patchArrays[i]), GetNumIndices(AsEmitted(i)))
           /\ Num(GetNumIndices(patchArrays[i])) > 0
           /\ VertEnd(i) <= vertBufLen

C8_MaxValenceFixed == GetMaxValence = ctorMaxValence

\* after a conversion pass and an edit of the list
C8_Witness == Converted /\ edits > 0 /\ GetMaxValence = 8 /\ Len(patchArrays) > 1

\* the three offsets of every array are those its constructor was given
C9_OffsetsAsConstructed ==
    Converted =>
        \A i \in 1..Len(patchArrays) :
            /\ GetVertIndex(patchArrays[i]) = ToUnsigned(emitted[i].vertIndex)
            /\ GetPatchIndex(patchArrays[i]) = ToUnsigned(emitted[i].patchIndex)
            /\ GetQuadOffsetIndex(patchArrays[i]) =
                   ToUnsigned(emitted[i].quadOffsetIndex)

\* one step of an edit: the offsets stay, a new count leaves the descriptor
\* and a new descriptor leaves the count
C9_SetterChangesOneField ==
    Converted =>
        \A i \in 1..Len(patchArrays) :
            /\ GetVertIndex(patchArrays'[i]) = GetVertIndex(patchArrays[i])
            /\ GetPatchIndex(patchArrays'[i]) = GetPatchIndex(patchArrays[i])
            /\ GetQuadOffsetIndex(patchArrays'[i]) = GetQuadOffsetIndex(patchArrays[i])
            /\ lastSet'[i].npatches # lastSet[i].npatches =>
                   GetDescriptor(patchArrays'[i]) = GetDescriptor(patchArrays[i])
            /\ lastSet'[i].desc # lastSet[i].desc =>
                   GetNumPatches(patchArrays'[i]) = GetNumPatches(patchArrays[i])

C10_CountNeverNegative ==
    Converted =>
        \A i \in 1..Len(patchArrays) :
            /\ patchArrays[i].npatches >= 0
            /\ FitsInt(GetNumPatches(patchArrays[i]))
            /\ Value(GetNumPatches(patchArrays[i])) = lastSet[i].npatches

====
